---- MODULE Spec2Model ----
(***************************************************************************)
(* basketry/sorbet-docs: generateDocs (src/src/readme-factory.ts) and      *)
(* buildInterfaceDocsFilepath (src/src/name-factory.ts).                   *)
(*                                                                         *)
(* A string is a sequence of one-character strings, so that the case       *)
(* conversions, the anchor computation and the two string orders are       *)
(* computed character by character.  A rendered line is a record           *)
(*   [sec, kind, text, of, ref]                                            *)
(* where text is the line's characters; sec names the block of             *)
(* buildInterfaceDocs that yielded the line, kind the yield statement, of  *)
(* the name.value of the method, type or enum the line belongs to and ref  *)
(* the Parameter / Property / ReturnType the line renders (NoRef for the   *)
(* other lines).  Every entity of the model is without description and    *)
(* the banner is its two comment delimiters.  A walk that outgrows the     *)
(* call stack raises RangeError out of generateDocs: pc = "fault".         *)
(***************************************************************************)
EXTENDS Integers, Sequences, FiniteSets, TLC

VARIABLES service, idx, pc, methods, types, enums, doc, files

vars == <<service, idx, pc, methods, types, enums, doc, files>>

(***************************************************************************)
(* Bounds of the model.                                                    *)
(***************************************************************************)
\* interfaces of a service model: 0 .. MaxInterfaces
MaxInterfaces == 2
\* generator frames the engine's call stack holds before it raises
\* RangeError; larger than the longest acyclic chain of the models below
MaxStack == 4

(***************************************************************************)
(* Characters.                                                             *)
(***************************************************************************)
LowerAlpha ==
    <<"a", "b", "c", "d", "e", "g", "i", "m", "n", "r", "s", "t", "v", "z">>
UpperAlpha ==
    <<"A", "B", "C", "D", "E", "G", "I", "M", "N", "R", "S", "T", "V", "Z">>
\* UTF-16 code units of the letters above, in the same order
LowerCode ==
    <<97, 98, 99, 100, 101, 103, 105, 109, 110, 114, 115, 116, 118, 122>>

IsLower(c) == \E i \in DOMAIN LowerAlpha : LowerAlpha[i] = c
IsUpper(c) == \E i \in DOMAIN UpperAlpha : UpperAlpha[i] = c
IsLetter(c) == IsLower(c) \/ IsUpper(c)
LetterIndex(c) ==
    CHOOSE i \in DOMAIN LowerAlpha : LowerAlpha[i] = c \/ UpperAlpha[i] = c

\* String.prototype.toLowerCase / toUpperCase on one character
LowerCh(c) == IF IsUpper(c) THEN LowerAlpha[LetterIndex(c)] ELSE c
UpperCh(c) == IF IsLower(c) THEN UpperAlpha[LetterIndex(c)] ELSE c

\* the UTF-16 code unit of a character (ordinal order)
Code(c) ==
    IF IsLower(c) THEN LowerCode[LetterIndex(c)]
    ELSE IF IsUpper(c) THEN LowerCode[LetterIndex(c)] - 32
    ELSE IF c = " " THEN 32
    ELSE IF c = "#" THEN 35
    ELSE IF c = "-" THEN 45
    ELSE IF c = ":" THEN 58
    ELSE IF c = "_" THEN 95
    ELSE 0

\* primary collation weight (root collation: white space, then punctuation
\* "_" "-" ":" "#", then the letters a..z; case is no primary difference)
Primary(c) ==
    IF IsLetter(c) THEN 10 + LowerCode[LetterIndex(c)]
    ELSE IF c = " " THEN 1
    ELSE IF c = "_" THEN 2
    ELSE IF c = "-" THEN 3
    ELSE IF c = ":" THEN 4
    ELSE IF c = "#" THEN 5
    ELSE 0

\* tertiary collation weight: lower case before upper case
Tertiary(c) == IF IsUpper(c) THEN 1 ELSE 0

(***************************************************************************)
(* Sequences.                                                              *)
(***************************************************************************)
RECURSIVE Flatten(_)
\* the concatenation of a sequence of sequences
Flatten(ss) == IF ss = <<>> THEN <<>> ELSE Head(ss) \o Flatten(Tail(ss))

\* the elements of s at the positions satisfying keep, in order
RECURSIVE SelectIdx(_, _, _)
SelectIdx(s, keep, i) ==
    IF i > Len(s) THEN <<>>
    ELSE (IF i \in keep THEN <<s[i]>> ELSE <<>>) \o SelectIdx(s, keep, i + 1)

\* insertion-ordered Set: the first occurrence of every element
Dedup(s) == SelectIdx(s, {i \in DOMAIN s : \A j \in 1..(i - 1) : s[j] # s[i]}, 1)

Range(s) == {s[i] : i \in DOMAIN s}

Weight(order, c) ==
    IF order = "ordinal" THEN Code(c)
    ELSE IF order = "primary" THEN Primary(c)
    ELSE Tertiary(c)

\* lexicographic comparison of two strings by a per-character weight
RECURSIVE LexCmp(_, _, _, _)
LexCmp(a, b, i, order) ==
    IF i > Len(a) /\ i > Len(b) THEN 0
    ELSE IF i > Len(a) THEN -1
    ELSE IF i > Len(b) THEN 1
    ELSE IF Weight(order, a[i]) < Weight(order, b[i]) THEN -1
    ELSE IF Weight(order, a[i]) > Weight(order, b[i]) THEN 1
    ELSE LexCmp(a, b, i + 1, order)

\* comparison by UTF-16 code units (a < b of the language)
OrdinalCompare(a, b) == LexCmp(a, b, 1, "ordinal")

\* String.prototype.localeCompare: primary weights first, case only as a
\* tie-break
localeCompare(a, b) ==
    IF LexCmp(a, b, 1, "primary") # 0 THEN LexCmp(a, b, 1, "primary")
    ELSE LexCmp(a, b, 1, "tertiary")
(***************************************************************************)
(* Case conversions of the case package, as readme-factory.ts and the    *)
(* name factories it calls use them.                                       *)
(***************************************************************************)
\* a character that separates words: white space, "-" or "_"
IsSep(c) == c \in {" ", "_", "-"}

toLowerCase(s) == [i \in DOMAIN s |-> LowerCh(s[i])]

\* prep: a string without any lower-case letter is lower-cased first
PrepCase(s) ==
    IF s # <<>> /\ \A i \in DOMAIN s : ~IsLower(s[i]) THEN toLowerCase(s) ELSE s

\* the first position of the run of upper-case letters that holds position i
RunStart(s, i) ==
    CHOOSE k \in 1..i :
        /\ \A j \in k..i : IsUpper(s[j])
        /\ (k = 1 \/ ~IsUpper(s[k - 1]))

\* relax: a run of upper-case letters that follows another character is
\* set off by a space, and so is its last letter ("getURLName" becomes
\* "get URL Name"); a string that already has separators is left alone
SplitBefore(s, i) ==
    /\ IsUpper(s[i])
    /\ RunStart(s, i) > 1
    /\ (RunStart(s, i) = i \/ i = Len(s) \/ ~IsUpper(s[i + 1]))

Relax(s) ==
    IF \E i \in DOMAIN s : IsSep(s[i]) THEN s
    ELSE Flatten([i \in DOMAIN s |->
            IF SplitBefore(s, i) THEN <<" ", s[i]>> ELSE <<s[i]>>])

\* fill: every run of separators becomes f when a character follows it and
\* disappears at the end of the string
RECURSIVE FillFrom(_, _, _, _)
FillFrom(s, f, i, pending) ==
    IF i > Len(s) THEN <<>>
    ELSE IF IsSep(s[i]) THEN FillFrom(s, f, i + 1, TRUE)
    ELSE (IF pending THEN f ELSE <<>>) \o <<s[i]>> \o FillFrom(s, f, i + 1, FALSE)

Fill(s, f) == FillFrom(s, f, 1, FALSE)

\* upper-cases the first letter of every word
Capitalize(s) ==
    [i \in DOMAIN s |-> IF i = 1 \/ IsSep(s[i - 1]) THEN UpperCh(s[i]) ELSE s[i]]

\* Case.pascal: "foo_bar", "foo bar", "fooBar" all become "FooBar"
pascal(s) == Fill(Capitalize(PrepCase(s)), <<>>)

\* Case.snake: "fooBar", "Foo Bar" become "foo_bar"
snake(s) == Fill(toLowerCase(Relax(PrepCase(s))), <<"_">>)

\* Case.title: "FooBar" becomes "Foo Bar"
title(s) == Capitalize(Fill(Relax(PrepCase(s)), <<" ">>))

\* String.prototype.split('::')
RECURSIVE SplitColons(_, _, _)
SplitColons(s, i, cur) ==
    IF i > Len(s) THEN <<cur>>
    ELSE IF i < Len(s) /\ s[i] = ":" /\ s[i + 1] = ":"
         THEN <<cur>> \o SplitColons(s, i + 2, <<>>)
    ELSE SplitColons(s, i + 1, Append(cur, s[i]))

\* anchor(name): lower-cased, every space a hyphen, "#" in front
anchor(name) ==
    <<"#">> \o [i \in DOMAIN name |->
                  IF LowerCh(name[i]) = " " THEN "-" ELSE LowerCh(name[i])]

\* the conversions on small strings
ConversionExamples ==
    /\ pascal(<<"a", "_", "b">>) = <<"A", "B">>
    /\ pascal(<<"a", "C">>) = <<"A", "C">>
    /\ pascal(<<"A", "B">>) = <<"A", "b">>
    /\ pascal(<<"c", " ", "D">>) = <<"C", "D">>
    /\ snake(<<"a", "C">>) = <<"a", "_", "c">>
    /\ snake(<<"a", "C", "D", "e">>) = <<"a", "_", "c", "_", "d", "e">>
    /\ snake(<<"A", "b", "S", "e">>) = <<"a", "b", "_", "s", "e">>
    /\ snake(<<"a", "-", "b", "_">>) = <<"a", "_", "b">>
    /\ title(<<"A", "b", "S", "e">>) = <<"A", "b", " ", "S", "e">>
    /\ anchor(<<"A", " ", "b">>) = <<"#", "a", "-", "b">>
    /\ SplitColons(<<"a", ":", ":", "b">>, 1, <<>>) = << <<"a">>, <<"b">> >>
    /\ localeCompare(<<"a">>, <<"B">>) = -1
    /\ OrdinalCompare(<<"a">>, <<"B">>) = 1
    /\ localeCompare(<<"a", "B">>, <<"A", "b">>) = -1
    /\ localeCompare(<<"a", "_", "b">>, <<"a", "b">>) = -1
    /\ Dedup(<<1, 2, 1, 3, 2>>) = <<1, 2, 3>>
(***************************************************************************)
(* The service models the generator is run on.                             *)
(***************************************************************************)
\* a Parameter, a Property or a ReturnType
Ref(name, isPrimitive, typeName, isArray, required) ==
    [name |-> name, isPrimitive |-> isPrimitive, typeName |-> typeName,
     isArray |-> isArray, required |-> required]

\* the absent return type of a method; the ref of a line that renders none
NoRef == Ref(<<>>, TRUE, <<>>, FALSE, FALSE)

\* isRequired(param): the member carries a required rule
isRequired(param) == param.required

STRING_T == <<"s", "t", "r", "i", "n", "g">>
INTEGER_T == <<"i", "n", "t", "e", "g", "e", "r">>

\* names of the registered types, of the registered enums, and a name that
\* is registered nowhere
TypeNames == << <<"a", "b">>, <<"a", "C">>, <<"b", "_", "d">> >>
EnumNames == << <<"e">>, <<"c", " ", "d">> >>
Dangling == <<"z">>
InterfaceNames == << <<"a", "b">>, <<"c", "d">>, <<"d", "a">>, <<"b", "e">> >>
ServiceTitle == <<"a", "z">>

\* the properties of a type that reference the types of refs, in the
\* declaration order 3, 1, 2
TypeProps(refs) ==
    Flatten([k \in 1..3 |->
        LET t == <<3, 1, 2>>[k]
        IN  IF t \in refs
            THEN <<Ref(TypeNames[t], FALSE, TypeNames[t], t = 2, t # 3)>>
            ELSE <<>>])

\* type t of a model whose reference graph is graph (type -> referenced
\* types); type 1 also has a primitive property, type 2 a property of enum 1
\* when enumProp, type 3 a property whose type is registered nowhere
TypeOf(t, graph, enumProp) ==
    [name |-> TypeNames[t],
     properties |->
        (IF t = 1 THEN <<Ref(<<"i", "d">>, TRUE, INTEGER_T, TRUE, TRUE)>>
         ELSE <<>>)
        \o TypeProps(graph[t])
        \o (IF t = 2 /\ enumProp
            THEN <<Ref(<<"e">>, FALSE, EnumNames[1], TRUE, FALSE)>> ELSE <<>>)
        \o (IF t = 3
            THEN <<Ref(<<"z">>, FALSE, Dangling, FALSE, FALSE)>> ELSE <<>>)]

\* the three methods an interface is made of; req gives the required flag
\* of the four parameters of method 1
MethodOf(m, req) ==
    IF m = 1 THEN
        [name |-> <<"a", "b">>,
         parameters |->
            << Ref(<<"a">>, TRUE, STRING_T, FALSE, req[1]),
               Ref(<<"b", "E">>, FALSE, TypeNames[1], FALSE, req[2]),
               Ref(<<"c">>, FALSE, EnumNames[2], TRUE, req[3]),
               Ref(<<"d">>, FALSE, Dangling, TRUE, req[4]) >>,
         returnType |-> NoRef]
    ELSE IF m = 2 THEN
        [name |-> <<"a", "C">>,
         parameters |-> <<>>,
         returnType |-> Ref(<<>>, FALSE, TypeNames[2], TRUE, TRUE)]
    ELSE
        [name |-> <<"d">>,
         parameters |-> <<Ref(<<"e">>, FALSE, Dangling, FALSE, TRUE)>>,
         returnType |-> Ref(<<>>, FALSE, EnumNames[1], FALSE, TRUE)]

\* interface i with the methods ms, declared in the order 3, 2, 1
InterfaceOf(i, ms, req) ==
    [name |-> InterfaceNames[i],
     methods |->
        Flatten([k \in 1..3 |->
            IF (4 - k) \in ms THEN <<MethodOf(4 - k, req)>> ELSE <<>>])]

ServiceOf(mss, graph, enumProp, req) ==
    [title |-> ServiceTitle,
     interfaces |-> [i \in DOMAIN mss |-> InterfaceOf(i, mss[i], req)],
     types |-> [t \in 1..3 |-> TypeOf(t, graph, enumProp)],
     enums |-> [e \in 1..2 |-> [name |-> EnumNames[e], values |-> << <<"v">> >>]]]

DefaultGraph == [t \in 1..3 |-> IF t < 3 THEN {t + 1} ELSE {}]
DefaultReq == [k \in 1..4 |-> k \in {2, 4}]
Graphs == [1..3 -> SUBSET (1..3)]
MethodSets == SUBSET (1..3)
(***************************************************************************)
(* Reference resolution and the walk over the type graph.                  *)
(***************************************************************************)
\* the results of a lookup that finds nothing
UndefinedType == [name |-> <<>>, properties |-> <<>>]
UndefinedEnum == [name |-> <<>>, values |-> <<>>]

\* getTypeByName / getEnumByName: the registered entity of exactly that name
getTypeByName(svc, name) ==
    IF \E t \in DOMAIN svc.types : svc.types[t].name = name
    THEN svc.types[CHOOSE t \in DOMAIN svc.types : svc.types[t].name = name]
    ELSE UndefinedType

getEnumByName(svc, name) ==
    IF \E e \in DOMAIN svc.enums : svc.enums[e].name = name
    THEN svc.enums[CHOOSE e \in DOMAIN svc.enums : svc.enums[e].name = name]
    ELSE UndefinedEnum

\* a walk that yields the type and does not descend into its properties
traverseType_shallow(svc, type, depth) == [ok |-> TRUE, out |-> <<type>>]

\* traverseType at nesting depth depth: [ok, out], out the types yielded in
\* order and ok = FALSE when the nesting outgrew the call stack (RangeError)
RECURSIVE traverseType(_, _, _)
RECURSIVE traverseProps(_, _, _, _)
traverseType(svc, type, depth) ==
    IF depth > MaxStack THEN [ok |-> FALSE, out |-> <<>>]
    ELSE LET rest == traverseProps(svc, type, 1, depth)
         IN  [ok |-> rest.ok, out |-> <<type>> \o rest.out]

\* the loop of traverseType over type.properties, from property i on
traverseProps(svc, type, i, depth) ==
    IF i > Len(type.properties) THEN [ok |-> TRUE, out |-> <<>>]
    ELSE LET prop == type.properties[i]
             subtype == getTypeByName(svc, prop.typeName)
             sub == IF ~prop.isPrimitive /\ subtype # UndefinedType
                    THEN traverseType(svc, subtype, depth + 1)
                    ELSE [ok |-> TRUE, out |-> <<>>]
         IN  IF ~sub.ok THEN sub
             ELSE LET rest == traverseProps(svc, type, i + 1, depth)
                  IN  [ok |-> rest.ok, out |-> sub.out \o rest.out]

\* the parameters of a method followed by its return type when it has one
MemberRefs(method) ==
    method.parameters
    \o (IF method.returnType # NoRef THEN <<method.returnType>> ELSE <<>>)

\* the member references of all methods of an interface, in visiting order
InterfaceRefs(int) ==
    Flatten([m \in DOMAIN int.methods |-> MemberRefs(int.methods[m])])

\* the comparator of methods, types and enums
byName(a, b) == localeCompare(a.name, b.name)

\* the comparator of sortParameters: required parameters before optional
byRequired(a, b) ==
    (IF isRequired(a) THEN 0 ELSE 1) - (IF isRequired(b) THEN 0 ELSE 1)

Compare(order, a, b) ==
    IF order = "byName" THEN byName(a, b) ELSE byRequired(a, b)

\* Array.prototype.sort with a comparator: a stable sort
StableSort(s, order) ==
    LET before(j, i) ==
            \/ Compare(order, s[j], s[i]) < 0
            \/ (Compare(order, s[j], s[i]) = 0 /\ j < i)
        pos(i) == 1 + Cardinality({j \in DOMAIN s : j # i /\ before(j, i)})
    IN  [k \in DOMAIN s |-> s[CHOOSE i \in DOMAIN s : pos(i) = k]]

\* Builder.methods
Builder_methods(int) == StableSort(int.methods, "byName")

\* Builder.types: [ok, val]; ok = FALSE when a walk raised
Builder_types(svc, int) ==
    LET refs == InterfaceRefs(int)
        walks == [k \in DOMAIN refs |->
                    LET t == getTypeByName(svc, refs[k].typeName)
                    IN  IF ~refs[k].isPrimitive /\ t # UndefinedType
                        THEN traverseType(svc, t, 1)
                        ELSE [ok |-> TRUE, out |-> <<>>]]
    IN  IF \E k \in DOMAIN walks : ~walks[k].ok
        THEN [ok |-> FALSE, val |-> <<>>]
        ELSE [ok |-> TRUE,
              val |-> StableSort(
                        Dedup(Flatten([k \in DOMAIN walks |-> walks[k].out])),
                        "byName")]

\* the enums a sequence of references names
EnumsNamed(svc, refs) ==
    Flatten([k \in DOMAIN refs |->
        LET e == getEnumByName(svc, refs[k].typeName)
        IN  IF ~refs[k].isPrimitive /\ e # UndefinedEnum THEN <<e>> ELSE <<>>])

\* Builder.enums: [ok, val]
Builder_enums(svc, int) ==
    LET ts == Builder_types(svc, int)
        direct == EnumsNamed(svc, InterfaceRefs(int))
        viaTypes == Flatten([t \in DOMAIN ts.val |->
                        EnumsNamed(svc, ts.val[t].properties)])
    IN  IF ~ts.ok THEN [ok |-> FALSE, val |-> <<>>]
        ELSE [ok |-> TRUE, val |-> StableSort(Dedup(direct \o viaTypes), "byName")]

\* a sort that puts the required parameters first and loses the source order
sortParameters_unstable(parameters) ==
    StableSort([k \in DOMAIN parameters |->
                  parameters[Len(parameters) + 1 - k]], "byRequired")

sortParameters(parameters) == StableSort(parameters, "byRequired")
(***************************************************************************)
(* Names (the name factory of the sorbet generator, without options).      *)
(***************************************************************************)
buildMethodName(method) == snake(method.name)
buildParameterName(param) == snake(param.name)
buildPropertyName(prop) == snake(prop.name)
buildInterfaceName(int) == pascal(int.name \o <<"_", "s", "e", "r", "v", "i", "c", "e">>)
buildTypeNamespace(svc) == pascal(svc.title)
buildInterfaceNamespace(svc) == pascal(svc.title)

\* the fully qualified type name of a reference (skipArrayify = true)
buildFullTypeName(svc, ref) ==
    IF ref.isPrimitive
    THEN (IF ref.typeName = STRING_T THEN <<"S", "t", "r", "i", "n", "g">>
          ELSE <<"I", "n", "t", "e", "g", "e", "r">>)
    ELSE buildTypeNamespace(svc) \o <<":", ":">> \o pascal(ref.typeName)

\* Builder.buildTypeName: the namespace and its "::" cut off a named type
buildTypeName(svc, ref) ==
    LET fullyQualifiedName == buildFullTypeName(svc, ref)
    IN  IF ref.isPrimitive THEN fullyQualifiedName
        ELSE SubSeq(fullyQualifiedName,
                    Len(buildTypeNamespace(svc)) + 2 + 1,
                    Len(fullyQualifiedName))

\* name-factory.ts buildInterfaceDocsFilepath
buildInterfaceDocsFilepath(int, svc) ==
    LET segments == SplitColons(buildInterfaceNamespace(svc), 1, <<>>)
    IN  [k \in DOMAIN segments |-> snake(segments[k])]
        \o << snake(buildInterfaceName(int)) \o <<".", "m", "d">> >>

(***************************************************************************)
(* Rendering.  A fixed fragment of a template ("### ", "Returns: ") is one *)
(* element of a text; names, brackets and anchors are single characters.   *)
(***************************************************************************)
\* the back quote that delimits a code span
TICK == "BACKQUOTE"

Line(sec, kind, text, of, ref) ==
    [sec |-> sec, kind |-> kind, text |-> text, of |-> of, ref |-> ref]

Blank(sec) == Line(sec, "blank", <<>>, <<>>, NoRef)

ArrayMarker(ref) == IF ref.isArray THEN <<"[", "]">> ELSE <<>>

\* Builder.buildLinkedTypeName
buildLinkedTypeName(svc, param) ==
    LET typeName == buildTypeName(svc, param)
    IN  IF param.isPrimitive THEN typeName \o ArrayMarker(param)
        ELSE <<"[">> \o typeName \o <<"]", "(">> \o anchor(typeName) \o <<")">>
             \o ArrayMarker(param)

\* Builder.buildParameter (no description)
buildParameter(svc, param) ==
    <<"- ", TICK>> \o buildParameterName(param) \o <<TICK, " ">>
    \o buildLinkedTypeName(svc, param)
    \o (IF isRequired(param) THEN <<>> ELSE <<" (optional)">>)

\* Builder.buildProperty (no description)
buildProperty(svc, prop) ==
    <<"- ", TICK>> \o buildPropertyName(prop) \o <<TICK, " ">>
    \o buildLinkedTypeName(svc, prop)
    \o (IF isRequired(prop) THEN <<>> ELSE <<" (optional)">>)

\* Array.prototype.join(', ') of a sequence of texts
RECURSIVE JoinComma(_)
JoinComma(ts) ==
    IF ts = <<>> THEN <<>>
    ELSE IF Len(ts) = 1 THEN ts[1]
    ELSE ts[1] \o <<", ">> \o JoinComma(Tail(ts))

\* one parameter of a call signature
SignatureItem(param) ==
    buildParameterName(param) \o <<":">>
    \o (IF isRequired(param) THEN <<>> ELSE <<" nil">>)

\* Builder.buildMethodDefinition
buildMethodDefinition(method) ==
    LET sorted == sortParameters(method.parameters)
        parameters ==
            IF Len(method.parameters) > 0
            THEN <<"(">>
                 \o JoinComma([k \in DOMAIN sorted |-> SignatureItem(sorted[k])])
                 \o <<")">>
            ELSE <<>>
    IN  buildMethodName(method) \o parameters

\* Builder.buildMethodDocs (no description)
buildMethodDocs(svc, method) ==
    << Line("Methods", "h3", <<"### ">> \o buildMethodName(method),
            method.name, NoRef),
       Blank("Methods"),
       Line("Methods", "signature",
            <<TICK>> \o buildMethodDefinition(method) \o <<TICK>>,
            method.name, NoRef) >>
    \o (IF Len(method.parameters) > 0
        THEN <<Blank("Methods")>>
             \o [k \in DOMAIN method.parameters |->
                   Line("Methods", "param",
                        buildParameter(svc, method.parameters[k]),
                        method.name, method.parameters[k])]
        ELSE <<>>)
    \o (IF method.returnType # NoRef
        THEN << Blank("Methods"),
                Line("Methods", "returns",
                     <<"Returns: ">>
                     \o buildLinkedTypeName(svc, method.returnType)
                     \o ArrayMarker(method.returnType),
                     method.name, method.returnType) >>
        ELSE <<>>)
    \o <<Blank("Methods")>>

\* Builder.buildTypeDocs (no description)
buildTypeDocs(svc, type) ==
    << Line("Types", "h3", <<"### ">> \o pascal(type.name), type.name, NoRef),
       Blank("Types"),
       Line("Types", "fqn",
            <<TICK>> \o buildTypeNamespace(svc) \o <<":", ":">>
            \o pascal(type.name) \o <<TICK>>,
            type.name, NoRef) >>
    \o (IF Len(type.properties) > 0
        THEN <<Blank("Types")>>
             \o [k \in DOMAIN type.properties |->
                   Line("Types", "prop",
                        buildProperty(svc, type.properties[k]),
                        type.name, type.properties[k])]
        ELSE <<>>)
    \o <<Blank("Types")>>

\* Builder.buildEnumDocs
buildEnumDocs(svc, e) ==
    << Line("Enums", "h3", <<"### ">> \o pascal(e.name), e.name, NoRef),
       Blank("Enums"),
       Line("Enums", "fqn",
            <<TICK>> \o buildTypeNamespace(svc) \o <<":", ":">>
            \o pascal(e.name) \o <<TICK>>,
            e.name, NoRef) >>
    \o (IF Len(e.values) > 0
        THEN <<Blank("Enums")>>
             \o [k \in DOMAIN e.values |->
                   Line("Enums", "value",
                        <<"- ", TICK>> \o e.values[k] \o <<TICK>>, e.name, NoRef)]
        ELSE <<>>)
    \o <<Blank("Enums")>>

\* one entry of the table of contents
TocItem(kind, visible, target, of) ==
    Line("Toc", kind,
         <<"  - ">> \o <<"[">> \o visible \o <<"]", "(">> \o target \o <<")">>,
         of, NoRef)

\* Builder.buildToc; it computes the three collections again
buildToc(svc, int) ==
    LET ms == Builder_methods(int)
        ts == Builder_types(svc, int).val
        es == Builder_enums(svc, int).val
    IN  (IF Len(ms) > 0
         THEN <<Line("Toc", "group", <<"- Methods">>, <<>>, NoRef)>>
              \o [k \in DOMAIN ms |->
                    TocItem("tocMethod", buildMethodName(ms[k]),
                            anchor(buildMethodName(ms[k])), ms[k].name)]
         ELSE <<>>)
        \o (IF Len(ts) > 0
            THEN <<Line("Toc", "group", <<"- Types">>, <<>>, NoRef)>>
                 \o [k \in DOMAIN ts |->
                       TocItem("tocType", pascal(ts[k].name),
                               anchor(ts[k].name), ts[k].name)]
            ELSE <<>>)
        \o (IF Len(es) > 0
            THEN <<Line("Toc", "group", <<"- Enums">>, <<>>, NoRef)>>
                 \o [k \in DOMAIN es |->
                       TocItem("tocEnum", pascal(es[k].name),
                               anchor(es[k].name), es[k].name)]
            ELSE <<>>)
(***************************************************************************)
(* The run of generateDocs: Builder.build maps buildInterfaceDocsFile over *)
(* the interfaces; idx is the interface being rendered, pc the next block  *)
(* of buildInterfaceDocs, doc the lines yielded so far for interface idx,  *)
(* files the files built so far.                                           *)
(***************************************************************************)
Init ==
    /\ \/ \E graph \in Graphs, enumProp \in BOOLEAN, ms \in MethodSets :
            service = ServiceOf(<<ms>>, graph, enumProp, DefaultReq)
       \/ \E req \in [1..4 -> BOOLEAN] :
            service = ServiceOf(<<{1, 2, 3}>>, DefaultGraph, TRUE, req)
       \/ \E n \in 0..MaxInterfaces : \E mss \in [1..n -> MethodSets] :
            service = ServiceOf(mss, DefaultGraph, TRUE, DefaultReq)
    /\ idx = 1
    /\ pc = "build"
    /\ methods = <<>>
    /\ types = <<>>
    /\ enums = <<>>
    /\ doc = <<>>
    /\ files = <<>>

int == service.interfaces[idx]

\* buildInterfaceDocs, lines 145-147: the three collections; a walk that
\* outgrows the stack raises out of generateDocs
Collect ==
    /\ pc = "build"
    /\ idx <= Len(service.interfaces)
    /\ IF Builder_types(service, int).ok
       THEN /\ methods' = Builder_methods(int)
            /\ types' = Builder_types(service, int).val
            /\ enums' = Builder_enums(service, int).val
            /\ pc' = "header"
       ELSE /\ pc' = "fault"
            /\ UNCHANGED <<methods, types, enums>>
    /\ UNCHANGED <<service, idx, doc, files>>

\* lines 149-152: the banner and the title
Header ==
    /\ pc = "header"
    /\ doc' = doc \o
         << Line("Header", "banner", <<"<!--">>, <<>>, NoRef),
            Line("Header", "banner", <<"--->">>, <<>>, NoRef),
            Blank("Header"),
            Line("Header", "h1", <<"# ">> \o title(buildInterfaceName(int)),
                 int.name, NoRef),
            Blank("Header") >>
    /\ pc' = "toc"
    /\ UNCHANGED <<service, idx, methods, types, enums, files>>

\* lines 153-154: the table of contents
TableOfContents ==
    /\ pc = "toc"
    /\ doc' = doc \o buildToc(service, int) \o <<Blank("Toc")>>
    /\ pc' = "methods"
    /\ UNCHANGED <<service, idx, methods, types, enums, files>>

\* lines 156-162
MethodsSection ==
    /\ pc = "methods"
    /\ doc' = IF Len(methods) > 0
              THEN doc \o << Line("Methods", "h2", <<"## Methods">>, <<>>, NoRef),
                             Blank("Methods") >>
                       \o Flatten([k \in DOMAIN methods |->
                                     buildMethodDocs(service, methods[k])])
              ELSE doc
    /\ pc' = "types"
    /\ UNCHANGED <<service, idx, methods, types, enums, files>>

\* a Types block that yields its heading whether or not there are types
TypesSection_unguarded ==
    /\ pc = "types"
    /\ doc' = doc \o << Line("Types", "h2", <<"## Types">>, <<>>, NoRef),
                        Blank("Types") >>
                  \o Flatten([k \in DOMAIN types |->
                                buildTypeDocs(service, types[k])])
    /\ pc' = "enums"
    /\ UNCHANGED <<service, idx, methods, types, enums, files>>

\* lines 163-169
TypesSection ==
    /\ pc = "types"
    /\ doc' = IF Len(types) > 0
              THEN doc \o << Line("Types", "h2", <<"## Types">>, <<>>, NoRef),
                             Blank("Types") >>
                       \o Flatten([k \in DOMAIN types |->
                                     buildTypeDocs(service, types[k])])
              ELSE doc
    /\ pc' = "enums"
    /\ UNCHANGED <<service, idx, methods, types, enums, files>>

\* lines 170-176
EnumsSection ==
    /\ pc = "enums"
    /\ doc' = IF Len(enums) > 0
              THEN doc \o << Line("Enums", "h2", <<"## Enums">>, <<>>, NoRef),
                             Blank("Enums") >>
                       \o Flatten([k \in DOMAIN enums |->
                                     buildEnumDocs(service, enums[k])])
              ELSE doc
    /\ pc' = "file"
    /\ UNCHANGED <<service, idx, methods, types, enums, files>>

\* buildInterfaceDocsFile: the file of interface idx joins the result of map
buildInterfaceDocsFile ==
    /\ pc = "file"
    /\ files' = Append(files,
                       [path |-> buildInterfaceDocsFilepath(int, service),
                        contents |-> doc])
    /\ idx' = idx + 1
    /\ pc' = "build"
    /\ doc' = <<>>
    /\ methods' = <<>>
    /\ types' = <<>>
    /\ enums' = <<>>
    /\ UNCHANGED service

\* Builder.build returns once map has visited every interface
Return ==
    /\ pc = "build"
    /\ idx > Len(service.interfaces)
    /\ pc' = "done"
    /\ UNCHANGED <<service, idx, methods, types, enums, doc, files>>

Next ==
    \/ Collect
    \/ Header
    \/ TableOfContents
    \/ MethodsSection
    \/ TypesSection
    \/ EnumsSection
    \/ buildInterfaceDocsFile
    \/ Return

Spec == Init /\ [][Next]_vars
(***************************************************************************)
(* What the documents are checked against: the reference graph as a        *)
(* relation over names, and the parts of a rendered text.                  *)
(***************************************************************************)
RegisteredTypes(svc) == {svc.types[t].name : t \in DOMAIN svc.types}
RegisteredEnums(svc) == {svc.enums[e].name : e \in DOMAIN svc.enums}

\* the non-primitive type names a set of references names
NamedBy(refs) == {r.typeName : r \in {x \in refs : ~x.isPrimitive}}

\* the parameters and return types of the methods of an interface
MembersOf(i) ==
    UNION {Range(i.methods[m].parameters) \cup {i.methods[m].returnType}
           : m \in DOMAIN i.methods} \ {NoRef}

PropsOf(svc, n) ==
    UNION {Range(svc.types[t].properties)
           : t \in {x \in DOMAIN svc.types : svc.types[x].name = n}}

\* the registered types the properties of type n name
TypeEdges(svc, n) == NamedBy(PropsOf(svc, n)) \cap RegisteredTypes(svc)

RECURSIVE Closure(_, _)
Closure(svc, S) ==
    LET S2 == S \cup UNION {TypeEdges(svc, n) : n \in S}
    IN  IF S2 = S THEN S ELSE Closure(svc, S2)

ReachableTypeNames(svc, i) ==
    Closure(svc, NamedBy(MembersOf(i)) \cap RegisteredTypes(svc))

ReachableEnumNames(svc, i) ==
    (NamedBy(MembersOf(i))
     \cup UNION {NamedBy(PropsOf(svc, n)) : n \in ReachableTypeNames(svc, i)})
    \cap RegisteredEnums(svc)

\* type n references itself, directly or through a chain
OnCycle(svc, n) == n \in Closure(svc, TypeEdges(svc, n))

CycleTypes(svc, i) == {n \in ReachableTypeNames(svc, i) : OnCycle(svc, n)}

Acyclic(svc) == \A n \in RegisteredTypes(svc) : ~OnCycle(svc, n)

\* a reference to a name that neither registry holds
IsDangling(svc, r) ==
    /\ r # NoRef
    /\ ~r.isPrimitive
    /\ r.typeName \notin RegisteredTypes(svc) \cup RegisteredEnums(svc)

Names(seq) == [k \in DOMAIN seq |-> seq[k].name]
NoDuplicates(seq) == \A i, j \in DOMAIN seq : i # j => seq[i] # seq[j]

\* the collections exist: buildInterfaceDocs is past its first three lines
Collected == pc \in {"header", "toc", "methods", "types", "enums", "file"}

\* the lines of a document of the given section and kind, in order
Lines(d, sec, kind) ==
    SelectIdx(d, {k \in DOMAIN d : d[k].sec = sec /\ d[k].kind = kind}, 1)

\* a text holds a Markdown link: "](" 
HasLink(text) ==
    \E k \in 1..(Len(text) - 1) : text[k] = "]" /\ text[k + 1] = "("

FirstIndex(text, c) == CHOOSE k \in DOMAIN text : text[k] = c /\ \A j \in 1..(k - 1) : text[j] # c

\* the visible text and the target of the first link of a text
LinkText(text) ==
    SubSeq(text, FirstIndex(text, "[") + 1, FirstIndex(text, "]") - 1)
LinkTarget(text) ==
    SubSeq(text, FirstIndex(text, "(") + 1, FirstIndex(text, ")") - 1)

\* the text of a heading without its "### "
HeadingText(line) == Tail(line.text)

\* the number of array markers "[]" a text ends with
RECURSIVE TrailingMarkers(_)
TrailingMarkers(text) ==
    IF Len(text) >= 2 /\ text[Len(text) - 1] = "[" /\ text[Len(text)] = "]"
    THEN 1 + TrailingMarkers(SubSeq(text, 1, Len(text) - 2))
    ELSE 0

\* the text of a bullet or Returns line up to the end of its type reference
RefText(line) ==
    IF line.text[Len(line.text)] = " (optional)"
    THEN SubSeq(line.text, 1, Len(line.text) - 1)
    ELSE line.text

\* the display names of a sequence are strictly ascending by code units
StrictlyAscending(names) ==
    \A i, j \in DOMAIN names : i < j => OrdinalCompare(names[i], names[j]) < 0

\* no walk raises unless the interface reaches a cycle of types
FaultOnlyOnCycle == pc = "fault" => CycleTypes(service, int) # {}
(***************************************************************************)
(* Properties.                                                             *)
(***************************************************************************)

\* C1 (cycle safety): when the interface being rendered reaches a type that
\* references itself, directly or through a chain, the computation of the
\* reachable types ends without raising, and its result holds every type
\* of the cycle exactly once.
C1_CycleSafety ==
    (idx <= Len(service.interfaces) /\ CycleTypes(service, int) # {}) =>
        /\ pc # "fault"
        /\ Collected =>
             \A n \in CycleTypes(service, int) :
                Cardinality({k \in DOMAIN types : types[k].name = n}) = 1

\* C2 (dangling references): a line that renders a reference to a name of
\* neither registry shows the bare name without a hyperlink, the name is in
\* neither collection, and the run does not raise.
C2_DanglingTolerance ==
    \A k \in DOMAIN doc :
        IsDangling(service, doc[k].ref) =>
            /\ ~HasLink(doc[k].text)
            /\ doc[k].ref.typeName \notin Range(Names(types)) \cup Range(Names(enums))
            /\ pc # "fault"

\* C3 (ordering law): the methods, the types and the enums are listed in the
\* table of contents and in their sections in strictly ascending order of
\* their names, compared by code units (case-sensitive, no collation).
C3_OrderingLaw ==
    /\ \A kind \in {"tocMethod", "tocType", "tocEnum"} :
          LET ls == Lines(doc, "Toc", kind)
          IN  StrictlyAscending([k \in DOMAIN ls |-> LinkText(ls[k].text)])
    /\ \A sec \in {"Methods", "Types", "Enums"} :
          LET ls == Lines(doc, sec, "h3")
          IN  StrictlyAscending([k \in DOMAIN ls |-> HeadingText(ls[k])])

\* the section whose headings the entries of a kind of the table point at
SectionOf(kind) ==
    IF kind = "tocMethod" THEN "Methods"
    ELSE IF kind = "tocType" THEN "Types"
    ELSE "Enums"

\* C4 (anchor law): the target of an entity's entry in the table of contents
\* is the anchor of the text of the entity's own heading: the heading text
\* lower-cased, its spaces hyphens, after a "#".
C4_AnchorLaw ==
    \A kind \in {"tocMethod", "tocType", "tocEnum"} :
        LET entries == Lines(doc, "Toc", kind)
            headings == Lines(doc, SectionOf(kind), "h3")
        IN  \A e \in DOMAIN entries, h \in DOMAIN headings :
                entries[e].of = headings[h].of =>
                    LinkTarget(entries[e].text) = anchor(HeadingText(headings[h]))

\* the method of the interface being rendered that has the given name
MethodNamed(name) ==
    int.methods[CHOOSE m \in DOMAIN int.methods : int.methods[m].name = name]

\* the required parameters in source order, then the optional ones in
\* source order
RequiredFirst(parameters) ==
    SelectIdx(parameters,
              {k \in DOMAIN parameters : isRequired(parameters[k])}, 1)
    \o SelectIdx(parameters,
                 {k \in DOMAIN parameters : ~isRequired(parameters[k])}, 1)

\* C5 (parameter ordering): the call signature of every method lists the
\* required parameters in their source order and then the optional
\* parameters in their source order.
C5_ParameterOrdering ==
    \A k \in DOMAIN doc :
        doc[k].kind = "signature" =>
            LET m == MethodNamed(doc[k].of)
                expected == RequiredFirst(m.parameters)
            IN  doc[k].text =
                    <<TICK>> \o buildMethodName(m)
                    \o (IF m.parameters = <<>> THEN <<>>
                        ELSE <<"(">>
                             \o JoinComma([j \in DOMAIN expected |->
                                             SignatureItem(expected[j])])
                             \o <<")">>)
                    \o <<TICK>>

\* a signature was rendered for parameters declared optional, required,
\* optional, required
C5_Witness ==
    \E k \in DOMAIN doc :
        /\ doc[k].kind = "signature"
        /\ LET ps == MethodNamed(doc[k].of).parameters
           IN  /\ Len(ps) = 4
               /\ [j \in 1..4 |-> isRequired(ps[j])] = <<FALSE, TRUE, FALSE, TRUE>>

\* C6 (reachable types): in a model without cycles the collection of types
\* holds exactly the registered types that a parameter or return type of the
\* interface names or that a property of a type of the collection names,
\* each once.
C6_ReachableTypes ==
    (Collected /\ Acyclic(service)) =>
        /\ Range(Names(types)) = ReachableTypeNames(service, int)
        /\ NoDuplicates(Names(types))

\* three types were collected, one of them named by two others of them
C6_Witness ==
    /\ Collected
    /\ Acyclic(service)
    /\ Len(types) = 3
    /\ \E n \in Range(Names(types)) :
          Cardinality({f \in Range(Names(types)) : n \in TypeEdges(service, f)}) = 2

\* whenever Builder.enums returns, it returns exactly the registered enums
\* that a parameter or return type of the interface names or that a
\* property of a reachable type names, each once
EnumsExactWhenCollected ==
    Collected =>
        /\ Range(Names(enums)) = ReachableEnumNames(service, int)
        /\ NoDuplicates(Names(enums))

\* an enum was collected that only a property of a type names, and that
\* type is itself named only by a property of another type
TransitiveEnumCollected ==
    /\ Collected
    /\ \E e \in Range(Names(enums)) :
          /\ e \notin NamedBy(MembersOf(int))
          /\ \A n \in RegisteredTypes(service) :
                e \in NamedBy(PropsOf(service, n)) => n \notin NamedBy(MembersOf(int))

\* C7 (reachable enums): for every interface the collection of enums is
\* computed, and it holds exactly the registered enums that a parameter or
\* return type of the interface names or that a property of a reachable
\* type names, each once.
C7_ReachableEnums ==
    /\ pc # "fault"
    /\ EnumsExactWhenCollected

Rank(sec) ==
    IF sec = "Header" THEN 1
    ELSE IF sec = "Toc" THEN 2
    ELSE IF sec = "Methods" THEN 3
    ELSE IF sec = "Types" THEN 4
    ELSE 5

\* section sec of document d: absent when its collection is empty, and
\* otherwise one block of lines that starts with the one heading `heading`
SectionShape(d, sec, heading, nonEmpty) ==
    LET at == {k \in DOMAIN d : d[k].sec = sec}
    IN  IF nonEmpty
        THEN /\ at # {}
             /\ \A k \in at :
                   (d[k].kind = "h2") <=> (\A j \in at : k <= j)
             /\ \A k \in at : d[k].kind = "h2" => d[k].text = <<heading>>
             /\ \E k \in at : d[k].kind = "h3"
        ELSE at = {}

\* the group lines of the table of contents of document d
TocGroups(d) ==
    LET ls == Lines(d, "Toc", "group") IN [k \in DOMAIN ls |-> ls[k].text[1]]

\* C8 (section sequence): the lines of a document come in the order header,
\* table of contents, methods, types, enums; the heading, the body and the
\* group of the table of contents of each of the last three are there if
\* and only if the interface has a method, a reachable type, a reachable
\* enum.
C8_SectionSequence ==
    /\ \A i, j \in DOMAIN doc : i < j => Rank(doc[i].sec) <= Rank(doc[j].sec)
    /\ pc \in {"toc", "methods", "types", "enums", "file"} =>
          Len(Lines(doc, "Header", "h1")) = 1
    /\ pc \in {"header", "toc"} => Lines(doc, "Toc", "group") = <<>>
    /\ pc \in {"methods", "types", "enums", "file"} =>
          /\ TocGroups(doc) =
                (IF int.methods # <<>> THEN <<"- Methods">> ELSE <<>>)
                \o (IF ReachableTypeNames(service, int) # {}
                    THEN <<"- Types">> ELSE <<>>)
                \o (IF ReachableEnumNames(service, int) # {}
                    THEN <<"- Enums">> ELSE <<>>)
          /\ (Lines(doc, "Toc", "tocMethod") # <<>>) <=> (int.methods # <<>>)
          /\ (Lines(doc, "Toc", "tocType") # <<>>)
                <=> (ReachableTypeNames(service, int) # {})
          /\ (Lines(doc, "Toc", "tocEnum") # <<>>)
                <=> (ReachableEnumNames(service, int) # {})
    /\ SectionShape(doc, "Methods", "## Methods",
                    pc \in {"types", "enums", "file"} /\ int.methods # <<>>)
    /\ SectionShape(doc, "Types", "## Types",
                    pc \in {"enums", "file"}
                    /\ ReachableTypeNames(service, int) # {})
    /\ SectionShape(doc, "Enums", "## Enums",
                    pc = "file" /\ ReachableEnumNames(service, int) # {})

\* a document was rendered whole with a Methods and an Enums section and
\* without a Types section
C8_Witness ==
    /\ pc = "file"
    /\ \E k \in DOMAIN doc : doc[k].sec = "Methods"
    /\ \E k \in DOMAIN doc : doc[k].sec = "Enums"
    /\ \A k \in DOMAIN doc : doc[k].sec # "Types"

\* the files built so far are those of the interfaces visited so far: the
\* k-th file has the path resolved for the k-th interface and the document
\* rendered for it, and a run that returns has built one for each interface
FilesMatchInterfaces ==
    /\ pc = "build" => Len(files) = idx - 1
    /\ pc = "done" => Len(files) = Len(service.interfaces)
    /\ Len(files) <= Len(service.interfaces)
    /\ \A k \in DOMAIN files :
          LET i == service.interfaces[k]
              d == files[k].contents
              h1 == Lines(d, "Header", "h1")
              h3 == Lines(d, "Methods", "h3")
          IN  /\ files[k].path = buildInterfaceDocsFilepath(i, service)
              /\ Len(h1) = 1
              /\ h1[1].text = <<"# ">> \o title(buildInterfaceName(i))
              /\ {h3[j].of : j \in DOMAIN h3} = Range(Names(i.methods))
    /\ \A j, k \in DOMAIN files : j # k => files[j].path # files[k].path

\* generateDocs returned for a model of two or more interfaces
ReturnedSeveralFiles ==
    /\ pc = "done"
    /\ Len(service.interfaces) >= 2
    /\ Len(files) = Len(service.interfaces)

\* C9 (one document per interface): for every service model generateDocs
\* returns, and it returns one file for each interface of the model and no
\* other, each with the path resolved for its interface and the document
\* rendered for it.
C9_OneFilePerInterface ==
    /\ pc # "fault"
    /\ FilesMatchInterfaces

\* C10 (array marker): the text that renders a reference ends with exactly
\* one array marker when the reference is an array and with none when it is
\* not, and the marker of a named reference follows the link.
C10_ArrayMarker ==
    \A k \in DOMAIN doc :
        doc[k].ref # NoRef =>
            LET text == RefText(doc[k])
                n == TrailingMarkers(text)
            IN  /\ n = (IF doc[k].ref.isArray THEN 1 ELSE 0)
                /\ ~doc[k].ref.isPrimitive => text[Len(text) - 2 * n] = ")"
====
